---- MODULE Spec2Model ----
(***************************************************************************)
(* The story-coloring-book backend: the /api/generate-book and             *)
(* /api/generate-images handlers of every revision of server.js kept in    *)
(* the repository.  One handler invocation is followed from the arrival of *)
(* the request to the response; the external providers answer              *)
(* nondeterministically.                                                   *)
(*                                                                         *)
(* Revisions (variable `version`):                                         *)
(*   "final"    src/server.js 1-359      fetch to OpenAI, Stability images *)
(*   "pdfkit"   src/server.js 361-650    OpenAI SDK for text and images    *)
(*   "part000"  src/unnamed/part_000     as pdfkit, older image loop       *)
(*   "part001"  src/unnamed/part_001     OpenAI SDK text, Stability images *)
(*   "part002"  src/unnamed/part_002     Stability image route only        *)
(***************************************************************************)
EXTENDS Integers, Sequences, FiniteSets, TLC

VARIABLES
  version,       \* the revision of server.js that runs
  openaiKey,     \* whether process.env.OPENAI_API_KEY is set
  stabilityKey,  \* whether process.env.STABILITY_API_KEY is set
  proc,          \* "boot", "running", or "exited" (process.exit(1))
  pc,            \* the handler: "idle", awaiting "bookCall" or "imageCall", "done"
  req,           \* the request being handled: its route and body
  i,             \* the index of the image loop
  images,        \* the images array of the image loop
  calls,         \* the calls issued to the providers, with their answers
  responses,     \* the responses sent for the request
  exit           \* the return statement that ended the handler

vars == <<version, openaiKey, stabilityKey, proc, pc, req, i, images, calls,
          responses, exit>>

-----------------------------------------------------------------------------
(* Bounds of the model *)

\* longest prompts array a client sends to /api/generate-images
MaxPrompts == 9

\* longest prompts array whose items are not all plain strings
MaxMixedPrompts == 3

\* longest prompts array the text provider returns
MaxBookPrompts == 5

\* longest returned prompts array with an irregular entry
MaxMixedBookPrompts == 2

-----------------------------------------------------------------------------
(* JavaScript values.  A string is a sequence of tokens: a token is one    *)
(* character, or a literal piece of a template kept whole.                 *)

Undefined == [t |-> "undefined"]
Null == [t |-> "null"]
NaN == [t |-> "NaN"]
Str(s) == [t |-> "string", s |-> s]
Num(n) == [t |-> "number", n |-> n]
Arr(a) == [t |-> "array", a |-> a]
Obj(o) == [t |-> "object", o |-> o]

\* ToBoolean, as `!x`, `x || y` and `if (x)` apply it
Truthy(v) ==
  CASE v.t = "undefined" -> FALSE
    [] v.t = "null" -> FALSE
    [] v.t = "NaN" -> FALSE
    [] v.t = "string" -> Len(v.s) > 0
    [] v.t = "number" -> v.n # 0
    [] OTHER -> TRUE

\* a || b
Or(a, b) == IF Truthy(a) THEN a ELSE b

\* Array.isArray(v)
IsArray(v) == v.t = "array"

\* v.k throws a TypeError on undefined and null
GetThrows(v) == v.t \in {"undefined", "null"}

\* v.k where it does not throw: a missing property reads as undefined
Get(v, k) ==
  IF v.t = "object" /\ k \in DOMAIN v.o THEN v.o[k] ELSE Undefined

\* the decimal digits of a number, as String(n) writes them
DigitTok(d) ==
  CASE d = 0 -> "0" [] d = 1 -> "1" [] d = 2 -> "2" [] d = 3 -> "3"
    [] d = 4 -> "4" [] d = 5 -> "5" [] d = 6 -> "6" [] d = 7 -> "7"
    [] d = 8 -> "8" [] OTHER -> "9"

RECURSIVE NatToks(_)
NatToks(n) ==
  IF n < 10 THEN <<DigitTok(n)>>
  ELSE NatToks(n \div 10) \o <<DigitTok(n % 10)>>

NumToks(n) == IF n < 0 THEN <<"-">> \o NatToks(0 - n) ELSE NatToks(n)

\* String(v), also the conversion inside a template literal
ToStr(v) ==
  CASE v.t = "string" -> v.s
    [] v.t = "number" -> NumToks(v.n)
    [] v.t = "object" -> <<"[object Object]">>
    [] v.t = "array" -> <<"[array]">>
    [] OTHER -> <<v.t>>

\* s.trim(): the blanks at both ends go
RECURSIVE TrimLeft(_)
TrimLeft(s) ==
  IF Len(s) > 0 /\ Head(s) = " " THEN TrimLeft(Tail(s)) ELSE s

RECURSIVE TrimRight(_)
TrimRight(s) ==
  IF Len(s) > 0 /\ s[Len(s)] = " "
    THEN TrimRight(SubSeq(s, 1, Len(s) - 1)) ELSE s

Trim(s) == TrimRight(TrimLeft(s))

\* s.toLowerCase(), over the letters the model's inputs use
LowerTok(c) ==
  CASE c = "S" -> "s" [] c = "T" -> "t" [] c = "A" -> "a" [] OTHER -> c

ToLowerCase(s) == [j \in 1 .. Len(s) |-> LowerTok(s[j])]

Digits == {"0", "1", "2", "3", "4", "5", "6", "7", "8", "9"}

DigitVal(c) ==
  CASE c = "0" -> 0 [] c = "1" -> 1 [] c = "2" -> 2 [] c = "3" -> 3
    [] c = "4" -> 4 [] c = "5" -> 5 [] c = "6" -> 6 [] c = "7" -> 7
    [] c = "8" -> 8 [] OTHER -> 9

\* the value of the longest run of digits s starts with, after acc
RECURSIVE DigitsValue(_, _)
DigitsValue(s, acc) ==
  IF Len(s) > 0 /\ Head(s) \in Digits
    THEN DigitsValue(Tail(s), 10 * acc + DigitVal(Head(s)))
    ELSE acc

\* parseInt(v, 10): v is converted to a string, leading blanks are skipped, and
\* the leading digits (after an optional minus) are read; NaN without a digit
ParseInt(v) ==
  LET s == TrimLeft(ToStr(v))
      neg == Len(s) > 0 /\ Head(s) = "-"
      body == IF neg THEN Tail(s) ELSE s
  IN IF Len(body) = 0 \/ Head(body) \notin Digits THEN NaN
     ELSE Num(IF neg THEN 0 - DigitsValue(body, 0) ELSE DigitsValue(body, 0))

\* Number(v): the whole trimmed string must be a number; "" and null give 0
ToNumber(v) ==
  CASE v.t = "number" -> v
    [] v.t = "null" -> Num(0)
    [] v.t = "string" ->
         LET s == Trim(v.s)
             neg == Len(s) > 0 /\ Head(s) = "-"
             body == IF neg THEN Tail(s) ELSE s
         IN IF Len(s) = 0 THEN Num(0)
            ELSE IF Len(body) = 0 \/ \E j \in 1 .. Len(body) : body[j] \notin Digits
              THEN NaN
            ELSE Num(IF neg THEN 0 - DigitsValue(body, 0)
                     ELSE DigitsValue(body, 0))
    [] OTHER -> NaN

-----------------------------------------------------------------------------
(* Revisions and what each one is built on *)

Versions == {"final", "pdfkit", "part000", "part001", "part002"}

\* revisions whose image route posts to Stability with fetch
UsesStability(ver) == ver \in {"final", "part001", "part002"}

\* revisions that define a /api/generate-book route
HasBookRoute(ver) == ver \in {"final", "pdfkit", "part000", "part001"}

\* revisions whose code tests OPENAI_API_KEY (part001 hands it to the SDK
\* unread, part002 has no use for it)
ReadsOpenAIKey(ver) == ver \in {"final", "pdfkit", "part000"}

\* revisions that stop at startup without OPENAI_API_KEY
ExitsWithoutOpenAIKey(ver) == ver \in {"pdfkit", "part000"}

\* const maxImages = Math.min(prompts.length, 8)
ImageCap == 8

Min(a, b) == IF a < b THEN a ELSE b
Max(a, b) == IF a > b THEN a ELSE b

\* the cap forgotten: every prompt gets a call
UncappedImages(prompts) == Len(prompts.a)

maxImages(prompts) == Min(Len(prompts.a), ImageCap)

-----------------------------------------------------------------------------
(* Responses *)

Response(status, body) == [status |-> status, body |-> body]

NoPromptsResponse == Response(400, [error |-> "No prompts provided."])

NotConfiguredResponse ==
  Response(500, [error |-> "Image generation not configured.",
                 details |-> "Missing STABILITY_API_KEY on the server."])

\* the 402 answer with the images made so far added to it
PartialBillingResponse ==
  Response(402, [error |-> "Billing limit reached", images |-> images])

BillingResponse == Response(402, [error |-> "Billing limit reached"])

NoImagesResponse ==
  Response(500, [error |-> "No images could be generated.",
                 details |-> "Check server logs for Stability AI response errors."])

\* the catch block of the image route
ImagesCatchResponse(ver) ==
  IF ver \in {"pdfkit", "part000"}
    THEN Response(500, [error |-> "Image generation failed",
                        details |-> "err.message"])
    ELSE Response(500, [error |-> "Failed to generate images.",
                        details |-> "err.message"])

ImagesResponse(imgs) == Response(200, [images |-> imgs])

-----------------------------------------------------------------------------
(* POST /api/generate-images: one prompt of the loop *)

DefaultCharacter == <<"A friendly storybook child. Same face ... on every page.">>

\* the prompt text sent to Stability by the final revision
FinalFullPrompt(character, page, scenePrompt) ==
  <<"Black-and-white line-art coloring page. ... Main character (must stay consistent on every page): ">>
  \o ToStr(Or(character, Str(DefaultCharacter)))
  \o <<" This image must illustrate PAGE ">> \o NumToks(page)
  \o <<" of the story. Scene to draw (match this moment exactly): ">>
  \o ToStr(scenePrompt)
  \o <<" Important: - Keep the main character clearly the same as on all other pages. ...">>

\* the prompt text of the other revisions: the base prompt and a style line
StyledPrompt(basePrompt) ==
  ToStr(basePrompt)
  \o <<" Black-and-white line-art coloring page for young children. Thick outlines, no shading ...">>

\* The body of one iteration up to its call, for the prompt at 0-based index j:
\* whether reading the item throws, whether the iteration is skipped without a
\* call, and the page and prompt of the call otherwise.
ImageItem(ver, body, j) ==
  LET item == body.prompts.a[j + 1] IN
  CASE ver = "final" ->
         [throws |-> FALSE, skip |-> FALSE, page |-> Num(j + 1),
          prompt |-> FinalFullPrompt(body.character, j + 1,
                                     Or(item, Str(<<>>)))]
    [] ver = "part001" ->
         LET page == IF item.t = "object"
                       THEN Or(Get(item, "page"), Num(j + 1))
                       ELSE Num(j + 1)
             basePrompt ==
               IF item.t = "string" THEN item
               ELSE IF item.t = "object"
                 THEN Or(Or(Get(item, "prompt"), Get(item, "description")),
                         Str(<<>>))
               ELSE Str(<<>>)
         IN [throws |-> FALSE, skip |-> ~Truthy(basePrompt), page |-> page,
             prompt |-> StyledPrompt(basePrompt)]
    [] OTHER ->
         IF GetThrows(item)
           THEN [throws |-> TRUE, skip |-> FALSE, page |-> Undefined,
                 prompt |-> <<>>]
           ELSE [throws |-> FALSE, skip |-> FALSE,
                 page |-> Or(Get(item, "page"), Num(j + 1)),
                 prompt |-> StyledPrompt(Or(Get(item, "prompt"), Str(<<>>)))]

\* the last index from j down to start whose iteration is not skipped, or
\* max when there is none
RECURSIVE LastLive(_, _, _, _, _)
LastLive(ver, body, start, j, max) ==
  IF j < start THEN max
  ELSE IF ImageItem(ver, body, j).skip
    THEN LastLive(ver, body, start, j - 1, max)
  ELSE j

\* the first index from j up, below max, whose iteration is not skipped, or
\* max when there is none
RECURSIVE FirstLive(_, _, _, _)
FirstLive(ver, body, j, max) ==
  IF j >= max THEN max
  ELSE IF ImageItem(ver, body, j).skip THEN FirstLive(ver, body, j + 1, max)
  ELSE j

\* the iteration at index j up to its await
IterationOf(j, it) ==
  IF it.throws THEN [kind |-> "throw", idx |-> j]
  ELSE [kind |-> "call", idx |-> j, page |-> it.page, prompt |-> it.prompt]

\* the loop at index j: past the last iteration, or the iteration at j
AdvanceAt(ver, body, j, max) ==
  IF j >= max THEN [kind |-> "end"]
  ELSE IterationOf(j, ImageItem(ver, body, j))

\* the loop run from the last prompt down: the iteration taken is the last
\* one that is not skipped
AdvanceFromEnd(ver, body, start) ==
  AdvanceAt(ver, body,
            LastLive(ver, body, start, maxImages(body.prompts) - 1,
                     maxImages(body.prompts)),
            maxImages(body.prompts))

\* The loop from index `start` up to its next await: the next iteration that
\* is not skipped, if there is one below maxImages.
Advance(ver, body, start) ==
  AdvanceAt(ver, body,
            FirstLive(ver, body, start, maxImages(body.prompts)),
            maxImages(body.prompts))

\* what the code can see of one image-provider call
ImageOutcomes(ver) ==
  IF UsesStability(ver) THEN {"ok", "http402", "httpError", "throw"}
  ELSE {"url", "noUrl", "throw"}

\* the test of the length left out: only a non-array is rejected
RejectsOnlyNonArrays(body) == ~IsArray(body.prompts)

\* if (!Array.isArray(prompts) || prompts.length === 0): the request is
\* rejected before anything is done
ImagesRequestRejected(body) ==
  ~IsArray(body.prompts) \/ Len(body.prompts.a) = 0

\* the test of the key left out
NeverNotConfigured(ver, key) == FALSE

\* if (!STABILITY_API_KEY): the image route answers that it is not configured
ImagesNotConfigured(ver, key) == UsesStability(ver) /\ ~key

\* the response once the loop has run to its end
LoopEndResponse(ver, imgs) ==
  IF UsesStability(ver) /\ Len(imgs) = 0 THEN NoImagesResponse
  ELSE ImagesResponse(imgs)

-----------------------------------------------------------------------------
(* POST /api/generate-book: the helpers *)

DefaultPages == 8
MinPages == 4
MaxPages == 16

\* x && x.trim().length > 0 ? x.trim() : dflt
SafeText(x, dflt) ==
  IF Truthy(x) /\ Len(Trim(x.s)) > 0 THEN Trim(x.s) ELSE dflt

\* the page count without the clamp: the parsed number, or 8
UnclampedPages(pageCount) ==
  IF ParseInt(pageCount) = NaN THEN DefaultPages
  ELSE Max(0, ParseInt(pageCount).n)

\* Number.isNaN(raw) ? 8 : Math.max(4, Math.min(raw, 16)), raw = parseInt(pageCount, 10)
ClampPages(pageCount) ==
  LET raw == ParseInt(pageCount) IN
  IF raw = NaN THEN DefaultPages ELSE Max(MinPages, Min(raw.n, MaxPages))

\* `A cozy story for ages ${safeAgeRange} about ${safeIdea.toLowerCase()}.`
Tagline(safeAgeRange, safeIdea) ==
  Str(<<"A cozy story for ages ">> \o ToStr(safeAgeRange) \o <<" about ">>
      \o ToLowerCase(safeIdea) \o <<".">>)

\* the prompt text buildTemplateBook gives page n of numPages
TemplatePromptText(n, numPages, safeCharacter, safeIdea) ==
  IF n = 1
    THEN safeCharacter \o <<" looking thoughtful in a cozy room, thinking about: ">>
         \o safeIdea \o <<".">>
  ELSE IF n = 2
    THEN safeCharacter \o <<" taking a brave first step on their new adventure related to: ">>
         \o safeIdea \o <<".">>
  ELSE IF n = 3
    THEN safeCharacter \o <<" meeting a friendly helper or guide who makes them feel safer and more confident.">>
  ELSE IF n = 4
    THEN safeCharacter \o <<" practicing a small, brave action that helps them with ">>
         \o ToLowerCase(safeIdea) \o <<".">>
  ELSE IF n = numPages
    THEN safeCharacter \o <<" feeling proud and calm at the end of the story, showing how they have grown and found courage.">>
  ELSE safeCharacter \o <<" in a gentle scene that continues their adventure about ">>
       \o ToLowerCase(safeIdea) \o <<", looking curious and hopeful.">>

\* the five paragraphs of buildTemplateBook
TemplateParagraphs(safeCharacter, safeIdea) ==
  << Str(safeCharacter \o <<" has a big imagination, but lately something has been on their mind: ">>
         \o safeIdea \o <<". Every day, it feels a little bit bigger and a little bit harder to ignore.">>),
     Str(<<"One day, ">> \o safeCharacter \o <<" decides something has to change. ...">>),
     Str(<<"As the adventure begins, ">> \o safeCharacter \o <<" meets new friends and discovers small, brave steps they can take. ...">>),
     Str(<<"Along the way, ">> \o safeCharacter \o <<" learns that it's okay to feel nervous and it's okay to ask for help. ...">>),
     Str(<<"By the end of the adventure, ">> \o safeCharacter \o <<" realizes that ">>
         \o ToLowerCase(safeIdea) \o <<" doesn't have to be a scary thing anymore. ...">>) >>

\* buildTemplateBook({ title, mainCharacter, storyIdea, ageRange, pageCount })
buildTemplateBook(body) ==
  LET safeTitle == SafeText(body.title, <<"A Very Special Adventure">>)
      safeCharacter == SafeText(body.mainCharacter, <<"a brave little hero">>)
      safeIdea == SafeText(body.storyIdea,
                           <<"a small everyday problem that feels big at first">>)
      safeAgeRange == Or(body.ageRange, Str(<<"3", "{en dash}", "5">>))
      numPages == ClampPages(body.pageCount)
  IN Obj([title |-> Str(safeTitle),
          tagline |-> Tagline(safeAgeRange, safeIdea),
          ageRange |-> safeAgeRange,
          mainCharacter |-> Str(safeCharacter),
          storyIdea |-> Str(safeIdea),
          paragraphs |-> Arr(TemplateParagraphs(safeCharacter, safeIdea)),
          prompts |-> Arr([n \in 1 .. numPages |->
                            Obj([page |-> Num(n),
                                 prompt |-> Str(TemplatePromptText(
                                   n, numPages, safeCharacter, safeIdea))])])])

\* JSON.parse(raw): a text is either the JSON text of a value or no JSON at
\* all, and may be wrapped in a code fence; the fenced text is not JSON
ParseThrows(raw) == raw.fenced \/ raw.kind # "json"

JSONParse(raw) == raw.value

\* the text "{}" that stands in for an absent content in the final revision
EmptyObjectText ==
  [kind |-> "json", fenced |-> FALSE, text |-> <<"{}">>, value |-> Obj(<<>>)]

BookValidationResponse(ver) ==
  Response(400,
    [error |-> CASE ver = "final" -> "Please provide a mainCharacter and/or storyIdea."
                 [] ver = "part001" -> "Missing required character or story idea."
                 [] OTHER -> "Please provide at least a mainCharacter or storyIdea."])

\* the test that rejects a book request before anything else is done
BookRequestRejected(ver, body) ==
  IF ver = "part001"
    THEN ~Truthy(body.mainCharacter) \/ ~Truthy(body.storyIdea)
    ELSE ~Truthy(body.mainCharacter) /\ ~Truthy(body.storyIdea)

\* what the final revision's request to the text provider embeds
FinalTextRequest(body) ==
  [title |-> SafeText(body.title, <<"Magic Story Colorbook">>),
   mainCharacter |-> SafeText(body.mainCharacter, <<"a child with a big feeling">>),
   storyIdea |-> SafeText(body.storyIdea, <<"a gentle everyday problem that feels big">>),
   ageRange |-> Or(body.ageRange, Str(<<"3", "{en dash}", "5">>)),
   pageCount |-> Num(ClampPages(body.pageCount))]

\* the inputs as the part001 revision normalises them for its prompt
Part001TextRequest(body) ==
  [title |-> SafeText(body.title, <<"A Very Special Adventure">>),
   mainCharacter |-> SafeText(body.mainCharacter, <<"a brave little hero">>),
   storyIdea |-> Trim(body.storyIdea.s),
   ageRange |-> Or(body.ageRange, Str(<<"3", "-", "5">>)),
   pageCount |-> Num(ClampPages(body.pageCount))]

\* buildPrompt({ title, mainCharacter, storyIdea, ageRange, pageCount }): what
\* the prompt of the pdfkit revision embeds
buildPrompt(body) ==
  [title |-> SafeText(body.title, <<"Sammy the Brave Iguana">>),
   mainCharacter |-> SafeText(body.mainCharacter,
                              <<"an iguana named Sammy who's afraid of the dark">>),
   storyIdea |-> SafeText(body.storyIdea,
                          <<"They learn to feel safe at night with help from gentle forest friends and cozy night lights.">>),
   ageRange |-> Or(body.ageRange, Str(<<"3", "-", "5">>)),
   pageCount |-> Or(ToNumber(body.pageCount), Num(DefaultPages))]

\* what the request to the text provider embeds
TextRequest(ver, body) ==
  CASE ver = "final" -> FinalTextRequest(body)
    [] ver = "part001" -> Part001TextRequest(body)
    [] OTHER -> buildPrompt(body)

\* parsed.prompts.map((p, i) => ({ page: p.page || i + 1, prompt: p.prompt || String(p) }))
FinalMapPrompts(ps) ==
  [j \in 1 .. Len(ps) |->
     Obj([page |-> Or(Get(ps[j], "page"), Num(j)),
          prompt |-> Or(Get(ps[j], "prompt"), Str(ToStr(ps[j])))])]

\* const content = data.choices?.[0]?.message?.content || "{}", then
\* JSON.parse(content), {} when it throws
FinalParsed(raw) ==
  IF Len(raw.text) = 0 THEN JSONParse(EmptyObjectText)
  ELSE IF ParseThrows(raw) THEN Obj(<<>>)
  ELSE JSONParse(raw)

\* whether parsed.prompts is mapped: an array with an entry
FinalOwnPrompts(parsed) ==
  IsArray(Get(parsed, "prompts")) /\ Len(Get(parsed, "prompts").a) > 0

\* whether the book assembly throws a TypeError: a property of null is read
FinalAssemblyThrows(parsed) ==
  \/ GetThrows(parsed)
  \/ /\ FinalOwnPrompts(parsed)
     /\ \E j \in 1 .. Len(Get(parsed, "prompts").a) :
          GetThrows(Get(parsed, "prompts").a[j])

\* the assembly with the length tests left out: an array of the parsed
\* answer is taken even when it is empty
FinalAssembleKeepsEmpty(parsed, req0, template) ==
  Obj([title |-> Or(Get(parsed, "title"), Str(req0.title)),
       tagline |-> Or(Get(parsed, "tagline"),
                      Tagline(req0.ageRange, req0.storyIdea)),
       ageRange |-> Or(Get(parsed, "ageRange"), req0.ageRange),
       mainCharacter |-> Str(req0.mainCharacter),
       storyIdea |-> Str(req0.storyIdea),
       paragraphs |-> IF IsArray(Get(parsed, "paragraphs"))
                        THEN Get(parsed, "paragraphs")
                        ELSE Get(template, "paragraphs"),
       prompts |-> IF IsArray(Get(parsed, "prompts"))
                     THEN Arr(FinalMapPrompts(Get(parsed, "prompts").a))
                     ELSE Get(template, "prompts")])

\* const book = { ... }: the book assembled from the parsed answer, the
\* normalised request req0 and the template book
FinalAssemble(parsed, req0, template) ==
  Obj([title |-> Or(Get(parsed, "title"), Str(req0.title)),
       tagline |-> Or(Get(parsed, "tagline"),
                      Tagline(req0.ageRange, req0.storyIdea)),
       ageRange |-> Or(Get(parsed, "ageRange"), req0.ageRange),
       mainCharacter |-> Str(req0.mainCharacter),
       storyIdea |-> Str(req0.storyIdea),
       paragraphs |-> IF /\ IsArray(Get(parsed, "paragraphs"))
                         /\ Len(Get(parsed, "paragraphs").a) > 0
                        THEN Get(parsed, "paragraphs")
                        ELSE Get(template, "paragraphs"),
       prompts |-> IF FinalOwnPrompts(parsed)
                     THEN Arr(FinalMapPrompts(Get(parsed, "prompts").a))
                     ELSE Get(template, "prompts")])

\* the final revision from the answer on, given the template book
FinalRespond(ans, req0, template) ==
  IF ans.kind \in {"throw", "httpError"} THEN Response(200, template)
  ELSE IF FinalAssemblyThrows(FinalParsed(ans.raw)) THEN Response(200, template)
  ELSE Response(200, FinalAssemble(FinalParsed(ans.raw), req0, template))

\* the final revision, from the answer of the text provider to the response
FinalBookAfterCall(body, ans) ==
  FinalRespond(ans, FinalTextRequest(body), buildTemplateBook(body))

BookFailedResponse == Response(500, [error |-> "Failed to generate book."])

\* the object the pdfkit revision puts in place of an answer it cannot parse
PdfkitParseFallback(body, raw) ==
  Obj([title |-> Or(body.title, Str(<<"Your Custom Story">>)),
       tagline |-> Str(<<>>),
       ageRange |-> Or(body.ageRange, Str(<<>>)),
       paragraphs |-> Arr(<<Str(raw.text)>>),
       prompts |-> Arr(<<>>)])

\* if (!Array.isArray(parsed.paragraphs)) parsed.paragraphs = [];
\* if (!Array.isArray(parsed.prompts)) parsed.prompts = []; res.json(parsed)
PdfkitMinimalShape(parsed) ==
  IF GetThrows(parsed) THEN BookFailedResponse
  ELSE IF parsed.t # "object" THEN Response(200, parsed)
  ELSE Response(200, Obj(
         [f \in (DOMAIN parsed.o) \cup {"paragraphs", "prompts"} |->
            IF f \in {"paragraphs", "prompts"}
              THEN (IF IsArray(Get(parsed, f)) THEN parsed.o[f] ELSE Arr(<<>>))
              ELSE parsed.o[f]]))

\* the pdfkit revision (and part000), from the answer to the response
PdfkitBookAfterCall(body, ans) ==
  IF ans.kind = "throw" THEN BookFailedResponse
  ELSE IF ParseThrows(ans.raw)
    THEN PdfkitMinimalShape(PdfkitParseFallback(body, ans.raw))
  ELSE PdfkitMinimalShape(JSONParse(ans.raw))

\* the prompt text the part001 fallback gives page n of numPages
Part001PromptText(n, numPages, ch, idea) ==
  IF n = 1
    THEN ch \o <<" in a cozy room, thinking about the big problem on their mind: ">>
         \o idea \o <<".">>
  ELSE IF n = numPages
    THEN ch \o <<" feeling proud and calm at the end of the story, showing how much braver they have become.">>
  ELSE ch \o <<" on their gentle adventure, taking small brave steps and meeting kind helpers.">>

\* the four paragraphs of the part001 fallback
Part001Paragraphs(ch, idea) ==
  << Str(ch \o <<" has a big imagination, but lately something has been on their mind: ">>
         \o idea \o <<". ...">>),
     Str(<<"One day, ">> \o ch \o <<" decides something has to change. ...">>),
     Str(<<"As the adventure begins, ">> \o ch \o <<" meets new friends ...">>),
     Str(<<"By the end of the adventure, ">> \o ch \o <<" realizes that the worry that once felt huge now feels lighter. ...">>) >>

\* the fallback book of the part001 revision's catch block
Part001Fallback(req0) ==
  Obj([title |-> Str(req0.title),
       tagline |-> Tagline(req0.ageRange, req0.storyIdea),
       ageRange |-> req0.ageRange,
       paragraphs |-> Arr(Part001Paragraphs(req0.mainCharacter, req0.storyIdea)),
       prompts |-> Arr([n \in 1 .. req0.pageCount.n |->
         Obj([page |-> Num(n),
              prompt |-> Str(Part001PromptText(n, req0.pageCount.n,
                                               req0.mainCharacter,
                                               req0.storyIdea))])])])

\* .map((p, idx) => ({ page: typeof p.page === "number" ? p.page : idx + 1,
\*                     prompt: p.prompt || "" }))
Part001MapPrompts(ps) ==
  [j \in 1 .. Len(ps) |->
     Obj([page |-> IF Get(ps[j], "page").t = "number" THEN Get(ps[j], "page")
                   ELSE Num(j),
          prompt |-> Or(Get(ps[j], "prompt"), Str(<<>>))])]

\* .filter((p) => p.prompt && typeof p.prompt === "string")
Part001KeepPrompt(p) ==
  Truthy(Get(p, "prompt")) /\ Get(p, "prompt").t = "string"

\* book.prompts.slice(0, numPages), after a non-array was replaced by []
Part001Sliced(book, numPages) ==
  IF IsArray(Get(book, "prompts"))
    THEN SubSeq(Get(book, "prompts").a, 1,
                Min(Len(Get(book, "prompts").a), numPages))
    ELSE <<>>

\* whether the normalisation throws a TypeError: the parsed value is no
\* object, or a kept prompts entry is null
Part001NormaliseThrows(book, numPages) ==
  \/ book.t # "object"
  \/ \E j \in 1 .. Len(Part001Sliced(book, numPages)) :
       GetThrows(Part001Sliced(book, numPages)[j])

\* the parsed object with paragraphs, prompts, title, tagline and ageRange
\* assigned
Part001Normalise(book, req0) ==
  Obj([f \in (DOMAIN book.o)
             \cup {"paragraphs", "prompts", "title", "tagline", "ageRange"} |->
         CASE f = "paragraphs" ->
                IF IsArray(Get(book, "paragraphs"))
                  THEN Get(book, "paragraphs") ELSE Arr(<<>>)
           [] f = "prompts" ->
                Arr(SelectSeq(
                      Part001MapPrompts(Part001Sliced(book, req0.pageCount.n)),
                      Part001KeepPrompt))
           [] f = "title" -> Or(Get(book, "title"), Str(req0.title))
           [] f = "tagline" ->
                Or(Get(book, "tagline"),
                   Tagline(req0.ageRange, req0.storyIdea))
           [] f = "ageRange" -> Or(Get(book, "ageRange"), req0.ageRange)
           [] OTHER -> book.o[f]])

ParseFailedResponse ==
  Response(500, [error |-> "Failed to parse story from AI response."])

\* the part001 revision from the answer on, given its fallback book
Part001Respond(ans, req0, fallback) ==
  IF ans.kind = "throw" THEN Response(200, fallback)
  ELSE IF Len(ans.raw.text) = 0 THEN Response(200, fallback)
  ELSE IF ParseThrows(ans.raw) THEN ParseFailedResponse
  ELSE IF Part001NormaliseThrows(JSONParse(ans.raw), req0.pageCount.n)
    THEN Response(200, fallback)
  ELSE Response(200, Part001Normalise(JSONParse(ans.raw), req0))

\* the part001 revision, from the answer of the text provider to the response
Part001BookAfterCall(body, ans) ==
  Part001Respond(ans, Part001TextRequest(body),
                 Part001Fallback(Part001TextRequest(body)))

\* the handler of the running revision, from the answer to the response
BookAfterCall(ver, body, ans) ==
  CASE ver = "final" -> FinalBookAfterCall(body, ans)
    [] ver = "part001" -> Part001BookAfterCall(body, ans)
    [] OTHER -> PdfkitBookAfterCall(body, ans)

-----------------------------------------------------------------------------
(* POST /api/export-pdf *)

\* revisions that define a /api/export-pdf route
HasPdfRoute(ver) == ver \in {"final", "pdfkit", "part000", "part001"}

\* revisions that lay the book out with PDFKit; the others send a placeholder
RendersPdf(ver) == ver \in {"pdfkit", "part000"}

LowerLetters ==
  {"a", "b", "c", "d", "e", "f", "g", "h", "i", "j", "k", "l", "m",
   "n", "o", "p", "q", "r", "s", "t", "u", "v", "w", "x", "y", "z"}

UpperLetters ==
  {"A", "B", "C", "D", "E", "F", "G", "H", "I", "J", "K", "L", "M",
   "N", "O", "P", "Q", "R", "S", "T", "U", "V", "W", "X", "Y", "Z"}

\* one character of the title left as it is
KeepChar(c) == c

\* one character under .replace(/[^a-z0-9\-]/gi, "_")
SanitizeChar(c) ==
  IF c \in LowerLetters \cup UpperLetters \cup Digits \cup {"-"} THEN c ELSE "_"

\* safeTitle.replace(/[^a-z0-9\-]/gi, "_")
SanitizeTitle(s) == [j \in 1 .. Len(s) |-> SanitizeChar(s[j])]

\* title || "Custom Story Coloring Book"
DefaultPdfTitle == Str(<<"C", "u", "s", "t", "o", "m", " ", "S", "t", "o", "r", "y", " ", "C", "o", "l", "o", "r", "i", "n", "g", " ", "B", "o", "o", "k">>)

\* the name in the placeholder route's Content-Disposition
PlaceholderFilename == <<"c", "u", "s", "t", "o", "m", "-", "s", "t", "o", "r", "y", ".", "p", "d", "f">>

\* the filename of the Content-Disposition header
PdfFilename(ver, title) ==
  IF RendersPdf(ver)
    THEN SanitizeTitle(Or(title, DefaultPdfTitle).s) \o <<".", "p", "d", "f">>
    ELSE PlaceholderFilename

\* safeTitle.replace is not a function: a truthy title that is no string
PdfThrows(body) == Truthy(body.title) /\ body.title.t # "string"

\* one doc.text(..) call
Text(kind, text) == [kind |-> kind, text |-> text]

\* the cover page: the title, the tagline if there is one, the attribution
CoverPage(body) ==
  <<Text("title", Or(body.title, DefaultPdfTitle).s)>>
  \o (IF Truthy(body.tagline) THEN <<Text("tagline", ToStr(body.tagline))>>
      ELSE <<>>)
  \o <<Text("attribution", <<"Generated with Magic Story Colorbooks">>)>>

\* (paragraphs || []).forEach(...)
ParagraphTexts(paragraphs) ==
  IF Truthy(paragraphs)
    THEN [j \in 1 .. Len(paragraphs.a) |-> Text("paragraph", ToStr(paragraphs.a[j]))]
    ELSE <<>>

\* doc.addPage(); the heading "Story"; the paragraphs in their order
StoryPage(body) ==
  <<Text("heading", <<"Story">>)>> \o ParagraphTexts(body.paragraphs)

\* if (prompts && prompts.length > 0)
HasPromptsSection(prompts) == Truthy(prompts) /\ Len(prompts.a) > 0

\* the two texts of one prompt: `Page ${item.page}:` and item.prompt
PromptTexts(item) ==
  <<Text("promptPage", <<"Page ">> \o ToStr(Get(item, "page")) \o <<":">>),
    Text("promptText", ToStr(Get(item, "prompt")))>>

RECURSIVE PromptsTexts(_)
PromptsTexts(items) ==
  IF Len(items) = 0 THEN <<>>
  ELSE PromptTexts(Head(items)) \o PromptsTexts(Tail(items))

\* doc.addPage(); the heading; each prompt under its page number
PromptsPage(prompts) ==
  <<Text("heading", <<"Coloring Pages (Prompts)">>)>> \o PromptsTexts(prompts.a)

\* the pages of the document PDFKit is told to write
PdfDocument(body) ==
  <<CoverPage(body), StoryPage(body)>>
  \o (IF HasPromptsSection(body.prompts) THEN <<PromptsPage(body.prompts)>>
      ELSE <<>>)

PdfFailedResponse == Response(500, [error |-> "Failed to generate PDF."])

\* what the route sends: headers and the document, or the placeholder text
PdfResponse(ver, body) ==
  IF RendersPdf(ver) /\ PdfThrows(body) THEN PdfFailedResponse
  ELSE [status |-> 200,
        contentType |-> "application/pdf",
        filename |-> PdfFilename(ver, body.title),
        body |-> IF RendersPdf(ver) THEN PdfDocument(body)
                 ELSE <<<<Text("placeholder",
                               <<"This is a placeholder PDF file content.">>)>>>>]

-----------------------------------------------------------------------------
(* Request bodies of POST /api/generate-images *)

SceneItem == Str(<<"a", " ", "s", "c", "e", "n", "e">>)

\* items a client may put in place of a plain string or a {page, prompt}
SpecialItems ==
  { Str(<<>>), Null,
    Obj([prompt |-> SceneItem]),
    Obj([page |-> Num(7)]),
    Obj([page |-> Num(7), description |-> SceneItem]) }

\* prompts arrays of length n: plain strings
PlainArrays(n) == { [j \in 1 .. n |-> SceneItem] }

\* prompts arrays of length n: {page, prompt} objects numbered up or down, and
\* plain strings with one irregular item
MixedArrays(n) ==
  { [j \in 1 .. n |-> Obj([page |-> Num(j), prompt |-> SceneItem])],
    [j \in 1 .. n |-> Obj([page |-> Num(n + 1 - j), prompt |-> SceneItem])] }
  \cup { [j \in 1 .. n |-> IF j = k THEN sp ELSE SceneItem] :
           k \in 1 .. n, sp \in SpecialItems }

\* the prompts field: absent, not an array, empty, or an array
PromptsInputs ==
  { Undefined, SceneItem, Arr(<<>>) }
  \cup UNION { { Arr(a) : a \in PlainArrays(n) } : n \in 1 .. MaxPrompts }
  \cup UNION { { Arr(a) : a \in MixedArrays(n) } : n \in 1 .. MaxMixedPrompts }

CharacterInputs == { Undefined, Str(<<"S", "a", "m">>) }

\* req.body || {}: an absent field reads as undefined
ImageBodies ==
  { [prompts |-> p, character |-> c, mainCharacter |-> m] :
      p \in PromptsInputs, c \in CharacterInputs, m \in CharacterInputs }

-----------------------------------------------------------------------------
(* Request bodies of POST /api/generate-book and answers of the text provider *)

NameInputs == { Undefined, Str(<<>>), Str(<<" ">>), Str(<<" ", "S", "a", "m">>) }

PageCountInputs ==
  { Undefined, Num(2), Num(20), Str(<<"6">>), Str(<<"a", "b", "c">>) }

\* title and ageRange are both sent or both left out
BookBodies ==
  { [title |-> m.title, mainCharacter |-> mc, storyIdea |-> si,
     ageRange |-> m.ageRange, pageCount |-> pgs] :
      m \in { [title |-> Undefined, ageRange |-> Undefined],
               [title |-> Str(<<"T", "a", "l", "e">>),
                ageRange |-> Str(<<"6", "-", "8">>)] },
      mc \in NameInputs, si \in NameInputs,
      pgs \in PageCountInputs }

SceneText == Str(<<"a", " ", "s", "c", "e", "n", "e">>)

\* a prompts array as the schema asks for it: pages 1..n, each with a prompt
GoodPrompts(n) ==
  [j \in 1 .. n |-> Obj([page |-> Num(j), prompt |-> SceneText])]

\* entries the model may return in place of a {page, prompt}
SpecialEntries ==
  { Obj([prompt |-> SceneText]),
    Obj([page |-> Num(1)]),
    Obj([page |-> Num(0 - 1), prompt |-> SceneText]),
    Obj([page |-> Num(0), prompt |-> SceneText]),
    Obj([page |-> Str(<<"2">>), prompt |-> SceneText]),
    Null,
    SceneText }

PromptsValues ==
  { Undefined, Str(<<"x">>), Arr(<<>>) }
  \cup { Arr(GoodPrompts(n)) : n \in 1 .. MaxBookPrompts }
  \cup UNION { { Arr([GoodPrompts(n) EXCEPT ![k] = sp]) :
                   k \in 1 .. n, sp \in SpecialEntries } :
               n \in 1 .. MaxMixedBookPrompts }

GoodParagraphs == Arr(<<Str(<<"p", "1">>), Str(<<"p", "2">>)>>)

ParagraphsValues == { Undefined, Str(<<"x">>), Arr(<<>>), GoodParagraphs }

\* a Book-shaped object with the given paragraphs and prompts
BookValue(pars, ps) ==
  Obj([title |-> Str(<<"A", " ", "t", "i", "t", "l", "e">>),
       tagline |-> Str(<<"a", " ", "t", "a", "g">>),
       ageRange |-> Str(<<"4", "-", "6">>),
       paragraphs |-> pars, prompts |-> ps])

\* the JSON values the text provider's content may hold
JsonValues ==
  { Null, Num(5), Obj(<<>>),
    Obj([paragraphs |-> GoodParagraphs, prompts |-> Arr(GoodPrompts(2))]) }
  \cup { BookValue(GoodParagraphs, ps) : ps \in PromptsValues }
  \cup { BookValue(pars, Arr(GoodPrompts(2))) : pars \in ParagraphsValues }

\* the content of an answer: the JSON text of a value, the same in a code
\* fence, a text that is no JSON, or nothing
Contents ==
  { [kind |-> "json", fenced |-> FALSE, text |-> <<"{json}">>, value |-> v] :
      v \in JsonValues }
  \cup { [kind |-> "json", fenced |-> TRUE,
          text |-> <<"[fence]", "{json}", "[fence]">>,
          value |-> BookValue(GoodParagraphs, Arr(GoodPrompts(2)))],
         [kind |-> "text", fenced |-> FALSE,
          text |-> <<"n", "o", "t", " ", "j", "s", "o", "n">>,
          value |-> Undefined],
         [kind |-> "text", fenced |-> FALSE, text |-> <<>>,
          value |-> Undefined] }

\* what the code can see of the call to the text provider: fetch shows a
\* non-success status as a response, the SDK throws on it
TextAnswers(ver) ==
  { [kind |-> "throw"] }
  \cup (IF ver = "final" THEN { [kind |-> "httpError"] } ELSE {})
  \cup { [kind |-> "content", raw |-> c] : c \in Contents }

-----------------------------------------------------------------------------
(* Request bodies of POST /api/export-pdf *)

PdfTitleInputs ==
  { Undefined, Str(<<>>), Str(<<"T">>), Str(<<" ">>), Num(5),
    Str(<<"S", "a", "m", "'", "s", " ", "N", "i", "g", "h", "t", ":", " ", "P", "a", "r", "t", " ", "1", "!">>),
    Str(<<"a", "-", "b", "_", "c", ".", "d", "/", "{e acute}">>) }

PdfTaglineInputs == { Undefined, Str(<<>>), Str(<<"a", " ", "t", "a", "g">>) }

PdfBodies ==
  { [title |-> t, tagline |-> g, paragraphs |-> pars, prompts |-> ps] :
      t \in PdfTitleInputs, g \in PdfTaglineInputs,
      pars \in { Undefined, Arr(<<>>), GoodParagraphs },
      ps \in { Undefined, Arr(<<>>), Arr(GoodPrompts(2)) } }

-----------------------------------------------------------------------------
(* State *)

NoRequest == [route |-> "none"]

Init ==
  /\ version \in Versions
  /\ openaiKey \in (IF ReadsOpenAIKey(version) THEN BOOLEAN ELSE {FALSE})
  /\ stabilityKey \in (IF UsesStability(version) THEN BOOLEAN ELSE {FALSE})
  /\ proc = "boot"
  /\ pc = "idle"
  /\ req = NoRequest
  /\ i = 0
  /\ images = <<>>
  /\ calls = <<>>
  /\ responses = <<>>
  /\ exit = "none"

\* module load: the startup checks of the environment, then app.listen
Start ==
  /\ proc = "boot"
  /\ proc' = IF ExitsWithoutOpenAIKey(version) /\ ~openaiKey
               THEN "exited" ELSE "running"
  /\ UNCHANGED <<version, openaiKey, stabilityKey, pc, req, i, images, calls,
                 responses, exit>>

\* the response sent without `return`: the handler goes on from where it is
FinishWithoutReturn(how, resp, imgs, cls) ==
  /\ pc' = pc
  /\ exit' = how
  /\ responses' = Append(responses, resp)
  /\ images' = imgs
  /\ calls' = cls
  /\ UNCHANGED i

\* return res.status(..).json(..): the handler ends with this response
Finish(how, resp, imgs, cls) ==
  /\ pc' = "done"
  /\ exit' = how
  /\ responses' = Append(responses, resp)
  /\ images' = imgs
  /\ calls' = cls
  /\ UNCHANGED i

\* the loop with no response after its last iteration: the handler returns
\* without answering
RunLoopWithoutAnswer(body, start, imgs, cls) ==
  LET a == Advance(version, body, start) IN
  CASE a.kind = "call" ->
         /\ pc' = "imageCall"
         /\ i' = a.idx
         /\ images' = imgs
         /\ calls' = Append(cls, [to |-> "image", idx |-> a.idx,
                                  page |-> a.page, prompt |-> a.prompt,
                                  res |-> "pending"])
         /\ UNCHANGED <<responses, exit>>
    [] a.kind = "throw" ->
         Finish("catch", ImagesCatchResponse(version), imgs, cls)
    [] OTHER ->
         /\ pc' = "returned"
         /\ images' = imgs
         /\ calls' = cls
         /\ UNCHANGED <<i, responses, exit>>

\* The image loop from index `start` with the images and calls so far, up to
\* the next await or to the response that ends the handler.
RunLoop(body, start, imgs, cls) ==
  LET a == Advance(version, body, start) IN
  CASE a.kind = "call" ->
         /\ pc' = "imageCall"
         /\ i' = a.idx
         /\ images' = imgs
         /\ calls' = Append(cls, [to |-> "image", idx |-> a.idx,
                                  page |-> a.page, prompt |-> a.prompt,
                                  res |-> "pending"])
         /\ UNCHANGED <<responses, exit>>
    [] a.kind = "throw" ->
         Finish("catch", ImagesCatchResponse(version), imgs, cls)
    [] OTHER -> Finish("loopEnd", LoopEndResponse(version, imgs), imgs, cls)

\* POST /api/generate-images, from the arrival of the request to the first await
GenerateImages ==
  /\ proc = "running"
  /\ pc = "idle"
  /\ \E body \in ImageBodies :
       /\ req' = [route |-> "images", body |-> body]
       /\ IF ImagesRequestRejected(body)
            THEN Finish("validation", NoPromptsResponse, <<>>, calls)
          ELSE IF ImagesNotConfigured(version, stabilityKey)
            THEN Finish("notConfigured", NotConfiguredResponse, <<>>, calls)
          ELSE RunLoop(body, 0, <<>>, calls)
  /\ UNCHANGED <<version, openaiKey, stabilityKey, proc>>

\* POST /api/generate-book, from the arrival of the request to the await
GenerateBook ==
  /\ proc = "running"
  /\ pc = "idle"
  /\ HasBookRoute(version)
  /\ \E body \in BookBodies :
       /\ req' = [route |-> "book", body |-> body]
       /\ IF BookRequestRejected(version, body)
            THEN Finish("validation", BookValidationResponse(version), images,
                        calls)
          ELSE IF version = "final" /\ ~openaiKey
            THEN Finish("noKey", Response(200, buildTemplateBook(body)),
                        images, calls)
          ELSE /\ pc' = "bookCall"
               /\ calls' = Append(calls, [to |-> "text",
                                          request |-> TextRequest(version, body),
                                          res |-> "pending",
                                          answer |-> [kind |-> "none"]])
               /\ UNCHANGED <<i, images, responses, exit>>
  /\ UNCHANGED <<version, openaiKey, stabilityKey, proc>>

\* the text provider answers; the handler runs on to its response
TextProviderResponds ==
  /\ pc = "bookCall"
  /\ \E ans \in TextAnswers(version) :
       Finish("answered", BookAfterCall(version, req.body, ans), images,
              [calls EXCEPT ![Len(calls)].res = ans.kind,
                            ![Len(calls)].answer = ans])
  /\ UNCHANGED <<version, openaiKey, stabilityKey, proc, req>>

\* POST /api/export-pdf: the whole handler
ExportPdf ==
  /\ proc = "running"
  /\ pc = "idle"
  /\ HasPdfRoute(version)
  /\ \E body \in PdfBodies :
       /\ req' = [route |-> "pdf", body |-> body]
       /\ Finish(IF RendersPdf(version) /\ PdfThrows(body) THEN "catch" ELSE "sent",
                 PdfResponse(version, body), images, calls)
  /\ UNCHANGED <<version, openaiKey, stabilityKey, proc>>

\* the image pushed for the call that just succeeded
NewImage(ver, call, outcome) ==
  [page |-> call.page,
   url |-> IF UsesStability(ver) THEN "data:image/png;base64,..."
           ELSE IF outcome = "url" THEN "https://..." ELSE "undefined"]

\* a thrown call treated like a failed page: the loop goes on
AfterCallSkipsThrow(ver, outcome) ==
  CASE outcome = "throw" -> "continue"
    [] outcome = "ok" -> "push"
    [] outcome = "http402" -> IF ver = "part002" THEN "continue" ELSE "billing"
    [] outcome = "httpError" -> "continue"
    [] outcome = "url" -> "push"
    [] OTHER -> IF ver = "part000" THEN "push" ELSE "continue"

\* what the loop body does with the answer to its call
AfterCall(ver, outcome) ==
  CASE outcome = "throw" -> "catch"
    [] outcome = "ok" -> "push"
    [] outcome = "http402" -> IF ver = "part002" THEN "continue" ELSE "billing"
    [] outcome = "httpError" -> "continue"
    [] outcome = "url" -> "push"
    [] OTHER -> IF ver = "part000" THEN "push" ELSE "continue"

\* the image provider answers the outstanding call; the loop runs on to its
\* next await or to the response
ImageProviderResponds ==
  /\ pc = "imageCall"
  /\ \E outcome \in ImageOutcomes(version) :
       LET n == Len(calls)
           cls == [calls EXCEPT ![n].res = outcome]
           act == AfterCall(version, outcome)
       IN CASE act = "catch" ->
                 Finish("catch", ImagesCatchResponse(version), images, cls)
            [] act = "billing" -> Finish("billing", BillingResponse, images, cls)
            [] act = "push" ->
                 RunLoop(req.body, i + 1,
                         Append(images, NewImage(version, calls[n], outcome)),
                         cls)
            [] OTHER -> RunLoop(req.body, i + 1, images, cls)
  /\ UNCHANGED <<version, openaiKey, stabilityKey, proc, req>>

Next ==
  \/ Start
  \/ GenerateBook
  \/ TextProviderResponds
  \/ GenerateImages
  \/ ImageProviderResponds
  \/ ExportPdf

Spec == Init /\ [][Next]_vars

\* the server of the final revision after construction
FinalInit == Init /\ version = "final"

\* The image route of the final revision, where every call to the image
\* provider is answered or throws in the end: the await of the loop resumes.
FairNext == Start \/ GenerateImages \/ ImageProviderResponds

FairSpec == FinalInit /\ [][FairNext]_vars /\ WF_vars(ImageProviderResponds)

-----------------------------------------------------------------------------
(* Properties *)

\* the response of the request, once the handler has ended
Answered == pc = "done" /\ Len(responses) = 1

\* the handler of /api/generate-book has ended after its provider call
BookAnswered == Answered /\ req.route = "book" /\ exit = "answered"

\* the calls made to the image provider so far
ImageCalls == SelectSeq(calls, LAMBDA c : c.to = "image")

\* absent, empty or whitespace-only
Blank(v) == v.t # "string" \/ Len(Trim(v.s)) = 0

\* C1: in the revisions the claim cites (final, pdfkit), a book request that
\* passed validation and whose provider call failed (a thrown error or a
\* non-success status) is answered 200 with buildTemplateBook of the request.
C1_ProviderFailureGivesTemplate ==
  ( /\ version \in {"final", "pdfkit"}
    /\ BookAnswered
    /\ calls[Len(calls)].res \in {"throw", "httpError"} )
  => responses[1] = Response(200, buildTemplateBook(req.body))

\* C2: in the revisions the claim cites (final, pdfkit, part001), a book
\* request whose provider content is a non-empty text that JSON.parse rejects
\* is answered 200 with paragraphs = [the raw content] and prompts = [].
C2_UnparseableContentGivesRawBook ==
  ( /\ version \in {"final", "pdfkit", "part001"}
    /\ BookAnswered
    /\ calls[Len(calls)].res = "content"
    /\ ParseThrows(calls[Len(calls)].answer.raw)
    /\ Len(calls[Len(calls)].answer.raw.text) > 0 )
  => /\ responses[1].status = 200
     /\ Get(responses[1].body, "paragraphs")
          = Arr(<<Str(calls[Len(calls)].answer.raw.text)>>)
     /\ Get(responses[1].body, "prompts") = Arr(<<>>)

\* C3: in the revisions the claim cites (final, pdfkit), a book request whose
\* mainCharacter and storyIdea are both absent, empty or whitespace-only
\* never causes a call to the text provider and is answered 400.
C3_BlankRequestRejected ==
  ( /\ version \in {"final", "pdfkit"}
    /\ req.route = "book"
    /\ Blank(req.body.mainCharacter)
    /\ Blank(req.body.storyIdea) )
  => /\ calls = <<>>
     /\ Answered => responses[1].status = 400

\* C4: in the revisions the claim cites (final, part001), every book answered
\* with status 200 has a prompts array no longer than the clamped pageCount,
\* and every entry's page is a positive integer.
C4_PromptsWithinPageCount ==
  ( /\ version \in {"final", "part001"}
    /\ Answered
    /\ req.route = "book"
    /\ responses[1].status = 200 )
  => /\ IsArray(Get(responses[1].body, "prompts"))
     /\ Len(Get(responses[1].body, "prompts").a) <= ClampPages(req.body.pageCount)
     /\ \A j \in 1 .. Len(Get(responses[1].body, "prompts").a) :
          /\ Get(Get(responses[1].body, "prompts").a[j], "page").t = "number"
          /\ Get(Get(responses[1].body, "prompts").a[j], "page").n >= 1

\* C5: in the revisions the claim cites (final, part002), an image call
\* answered 402 is the last call of the request, and the request is answered
\* with the 402 billing response at once.
C5_BillingStopsTheLoop ==
  version \in {"final", "part002"}
  => \A k \in 1 .. Len(calls) :
       (calls[k].to = "image" /\ calls[k].res = "http402")
       => /\ k = Len(calls)
          /\ Answered
          /\ responses[1] = BillingResponse

\* the pages of the calls that succeeded, in the order of the calls
SuccessfulPages ==
  LET ok == SelectSeq(ImageCalls, LAMBDA c : c.res = "ok")
  IN [k \in 1 .. Len(ok) |-> ok[k].page]

\* C6: in the revisions the claim cites (final, part001), when the loop ends
\* with no call answered 402, no call thrown and at least one call succeeded,
\* the answer is 200 with one image per successful call, the failed pages
\* left out, and the pages of the images ascend.
C6_PartialSuccessAscending ==
  ( /\ version \in {"final", "part001"}
    /\ Answered
    /\ req.route = "images"
    /\ exit = "loopEnd"
    /\ \E k \in 1 .. Len(calls) : calls[k].res = "ok" )
  => /\ responses[1].status = 200
     /\ [k \in 1 .. Len(images) |-> images[k].page] = SuccessfulPages
     /\ responses[1].body.images = images
     /\ \A k \in 1 .. Len(images) - 1 :
          /\ images[k].page.t = "number"
          /\ images[k + 1].page.t = "number"
          /\ images[k].page.n < images[k + 1].page.n

\* C7: in every revision, a request issues at most 8 image-provider calls,
\* each for one of the first 8 prompts and no prompt twice.
C7_AtMostEightCalls ==
  /\ Len(ImageCalls) <= 8
  /\ \A k \in 1 .. Len(ImageCalls) : ImageCalls[k].idx \in 0 .. 7
  /\ \A k, m \in 1 .. Len(ImageCalls) :
       k # m => ImageCalls[k].idx # ImageCalls[m].idx

\* C7 happens: a request with more than 8 prompts ended after 8 calls
C7_Witness ==
  /\ Answered
  /\ req.route = "images"
  /\ IsArray(req.body.prompts)
  /\ Len(req.body.prompts.a) > 8
  /\ Len(ImageCalls) = 8
  /\ exit = "loopEnd"

C9_OneCallAtATime ==
  \A k \in 1 .. Len(calls) :
    calls[k].to = "image"
    => /\ calls[k].res = "pending" => (k = Len(calls) /\ pc = "imageCall")
       /\ k > 1 => calls[k - 1].idx < calls[k].idx
       /\ version = "final" => (calls[k].idx = k - 1 /\ calls[k].page = Num(k))

\* C9 happens: the final revision waits for its third call, two answered
C9_Witness ==
  /\ version = "final"
  /\ pc = "imageCall"
  /\ Len(calls) = 3
  /\ calls[1].res = "httpError"
  /\ calls[2].res = "ok"
  /\ calls[3].res = "pending"

\* C10: in the revisions that use STABILITY_API_KEY, a request with a
\* non-empty prompts array, handled while the key is not set, issues no call
\* and is answered 500 with the message that names the missing key.
C10_NotConfigured ==
  ( /\ UsesStability(version)
    /\ ~stabilityKey
    /\ req.route = "images"
    /\ IsArray(req.body.prompts)
    /\ Len(req.body.prompts.a) > 0 )
  => /\ calls = <<>>
     /\ Answered
     /\ responses[1].status = 500
     /\ responses[1].body.error = "Image generation not configured."
     /\ responses[1].body.details = "Missing STABILITY_API_KEY on the server."

\* C10 happens: the part002 revision answered such a request without the key
C10_Witness ==
  /\ version = "part002"
  /\ ~stabilityKey
  /\ Answered
  /\ req.route = "images"
  /\ IsArray(req.body.prompts)
  /\ Len(req.body.prompts.a) = 3
  /\ exit = "notConfigured"

\* C11: in every revision, an image request whose prompts field is absent,
\* not an array or an empty array issues no image-provider call and is
\* answered 400 "No prompts provided." in the step that receives it.
C11_NoPromptsRejected ==
  ( /\ req.route = "images"
    /\ (~IsArray(req.body.prompts) \/ Len(req.body.prompts.a) = 0) )
  => /\ calls = <<>>
     /\ Answered
     /\ responses[1].status = 400
     /\ responses[1].body.error = "No prompts provided."

\* C11 happens: the final revision, with its key, answered a request whose
\* prompts array is empty
C11_Witness ==
  /\ version = "final"
  /\ stabilityKey
  /\ Answered
  /\ req.route = "images"
  /\ req.body.prompts = Arr(<<>>)
  /\ exit = "validation"

WellFormedBook(v) ==
  /\ v.t = "object"
  /\ DOMAIN v.o = {"title", "tagline", "ageRange", "paragraphs", "prompts"}
  /\ \A f \in {"title", "tagline", "ageRange"} : v.o[f].t = "string"
  /\ IsArray(v.o.paragraphs)
  /\ \A j \in 1 .. Len(v.o.paragraphs.a) : v.o.paragraphs.a[j].t = "string"
  /\ IsArray(v.o.prompts)
  /\ \A j \in 1 .. Len(v.o.prompts.a) :
       /\ v.o.prompts.a[j].t = "object"
       /\ DOMAIN v.o.prompts.a[j].o = {"page", "prompt"}
       /\ v.o.prompts.a[j].o.page.t = "number"
       /\ v.o.prompts.a[j].o.page.n >= 1
       /\ v.o.prompts.a[j].o.prompt.t = "string"
       /\ Len(v.o.prompts.a[j].o.prompt.s) > 0

\* the JSON text of a value, as the provider would return it
JsonTextOf(v) ==
  [kind |-> "json", fenced |-> FALSE, text |-> <<"{json}">>, value |-> v]

\* C13: in the revisions the claim cites (final, pdfkit), when the provider
\* returns the JSON text of a well-formed Book, the answer is 200 with that
\* very Book, and the handler given the returned Book as the provider's
\* content answers with the same Book again.
C13_NormalizerIdempotent ==
  ( /\ version \in {"final", "pdfkit"}
    /\ BookAnswered
    /\ calls[Len(calls)].res = "content"
    /\ ~ParseThrows(calls[Len(calls)].answer.raw)
    /\ WellFormedBook(JSONParse(calls[Len(calls)].answer.raw)) )
  => /\ responses[1] = Response(200, JSONParse(calls[Len(calls)].answer.raw))
     /\ BookAfterCall(version, req.body,
                      [kind |-> "content",
                       raw |-> JsonTextOf(responses[1].body)])
          = responses[1]

\* C14: in the pdfkit revision, the export of a Book with title "T", an
\* empty tagline, no paragraphs and no prompts is answered 200 with a
\* document that holds the cover page alone.
C14_EmptyBookIsCoverOnly ==
  ( /\ version = "pdfkit"
    /\ Answered
    /\ req.route = "pdf"
    /\ req.body.title = Str(<<"T">>)
    /\ req.body.tagline = Str(<<>>)
    /\ req.body.paragraphs = Arr(<<>>)
    /\ req.body.prompts = Arr(<<>>) )
  => /\ responses[1].status = 200
     /\ responses[1].body = <<CoverPage(req.body)>>

\* /^[a-z0-9\-_]+\.pdf$/i
MatchesFilenamePattern(f) ==
  /\ Len(f) >= 5
  /\ f[Len(f) - 3] = "."
  /\ f[Len(f) - 2] \in {"p", "P"}
  /\ f[Len(f) - 1] \in {"d", "D"}
  /\ f[Len(f)] \in {"f", "F"}
  /\ \A j \in 1 .. Len(f) - 4 :
       f[j] \in LowerLetters \cup UpperLetters \cup Digits \cup {"-", "_"}

\* C15: in every revision with the route, an export request whose title is a
\* string or absent is answered 200 with a Content-Disposition filename that
\* matches /^[a-z0-9\-_]+\.pdf$/i.
C15_FilenameSanitized ==
  ( /\ req.route = "pdf"
    /\ req.body.title.t \in {"string", "undefined"} )
  => /\ Answered
     /\ responses[1].status = 200
     /\ MatchesFilenamePattern(responses[1].filename)

\* C15 happens: the pdfkit revision exported the title "Sam's Night: Part 1!"
C15_Witness ==
  /\ version = "pdfkit"
  /\ Answered
  /\ req.route = "pdf"
  /\ req.body.title = Str(<<"S", "a", "m", "'", "s", " ", "N", "i", "g", "h", "t", ":", " ", "P", "a", "r", "t", " ", "1", "!">>)
  /\ responses[1].status = 200
  /\ responses[1].filename = <<"S", "a", "m", "_", "s", "_", "N", "i", "g", "h", "t", "_", "_", "P", "a", "r", "t", "_", "1", "_", ".", "p", "d", "f">>

\* the provider's content was parsed: the value JSON.parse returned
ParsedAnswer == JSONParse(calls[Len(calls)].answer.raw)

\* a book request was answered after a content that JSON.parse accepted
ParseSucceeded ==
  /\ BookAnswered
  /\ calls[Len(calls)].res = "content"
  /\ Len(calls[Len(calls)].answer.raw.text) > 0
  /\ ~ParseThrows(calls[Len(calls)].answer.raw)

\* a raw prompt entry has a prompt string
HasPromptString(e) ==
  Get(e, "prompt").t = "string" /\ Len(Get(e, "prompt").s) > 0

\* raw prompt entries that are objects whose page, if they have one, is a
\* positive integer
PlainEntries(ps) ==
  \A j \in 1 .. Len(ps) :
    /\ ps[j].t = "object"
    /\ \/ Get(ps[j], "page") = Undefined
       \/ (Get(ps[j], "page").t = "number" /\ Get(ps[j], "page").n >= 1)

\* what the spec's normalizer returns for such entries: those with a prompt
\* string, each with its own page or else its 1-based position
ExpectedPrompts(ps) ==
  SelectSeq([j \in 1 .. Len(ps) |->
               Obj([page |-> IF Get(ps[j], "page") = Undefined THEN Num(j)
                             ELSE Get(ps[j], "page"),
                    prompt |-> Get(ps[j], "prompt")])],
            HasPromptString)

\* C16: in the revisions the claim cites (final, pdfkit, part001), when the
\* parsed answer is an object whose prompts array has object entries (no more
\* than the clamped pageCount), the returned prompts are the entries that have
\* a prompt string, and an entry without page has its 1-based position as page.
C16_PromptsNormalized ==
  ( /\ version \in {"final", "pdfkit", "part001"}
    /\ ParseSucceeded
    /\ ParsedAnswer.t = "object"
    /\ IsArray(Get(ParsedAnswer, "prompts"))
    /\ Len(Get(ParsedAnswer, "prompts").a) \in 1 .. ClampPages(req.body.pageCount)
    /\ PlainEntries(Get(ParsedAnswer, "prompts").a) )
  => /\ responses[1].status = 200
     /\ Get(responses[1].body, "prompts")
          = Arr(ExpectedPrompts(Get(ParsedAnswer, "prompts").a))

\* C17: in the revisions the claim cites (final, pdfkit), when the parsed
\* answer is an object, a paragraphs field that is absent or no array is
\* returned as the empty array, and so is such a prompts field.
C17_MissingArraysDefaultToEmpty ==
  ( /\ version \in {"final", "pdfkit"}
    /\ ParseSucceeded
    /\ ParsedAnswer.t = "object" )
  => /\ responses[1].status = 200
     /\ ~IsArray(Get(ParsedAnswer, "paragraphs"))
        => Get(responses[1].body, "paragraphs") = Arr(<<>>)
     /\ ~IsArray(Get(ParsedAnswer, "prompts"))
        => Get(responses[1].body, "prompts") = Arr(<<>>)

\* C18: in the revisions the claim cites (final, pdfkit), when the provider's
\* content is the JSON text of a Book wrapped in a code fence, the answer is
\* the one the handler gives for the same JSON text without the fence.
C18_FenceStripped ==
  ( /\ version \in {"final", "pdfkit"}
    /\ BookAnswered
    /\ calls[Len(calls)].res = "content"
    /\ calls[Len(calls)].answer.raw.kind = "json"
    /\ calls[Len(calls)].answer.raw.fenced )
  => responses[1]
       = BookAfterCall(version, req.body,
                       [kind |-> "content",
                        raw |-> JsonTextOf(calls[Len(calls)].answer.raw.value)])

\* the page count the spec gives a request: 8 when pageCount is absent or no
\* number, pageCount brought into 4 .. 16 otherwise
SpecPageCount(pageCount) ==
  IF ToNumber(pageCount).t # "number" THEN 8
  ELSE IF ToNumber(pageCount).n < 4 THEN 4
  ELSE IF ToNumber(pageCount).n > 16 THEN 16
  ELSE ToNumber(pageCount).n

\* C19: in the revisions the claim cites (final, pdfkit), the page count in
\* the request sent to the text provider is the spec's page count of the
\* request, and so is the number of pages of the book the final revision
\* builds from its template without a key.
C19_PageCountClamped ==
  ( /\ version \in {"final", "pdfkit"}
    /\ req.route = "book" )
  => /\ \A k \in 1 .. Len(calls) :
          calls[k].to = "text"
          => calls[k].request.pageCount = Num(SpecPageCount(req.body.pageCount))
     /\ (Answered /\ exit = "noKey")
        => Len(Get(responses[1].body, "prompts").a)
             = SpecPageCount(req.body.pageCount)

\* the final revision answered a book request with its template book
TemplateAnswered ==
  /\ version = "final"
  /\ Answered
  /\ req.route = "book"
  /\ \/ exit = "noKey"
     \/ (exit = "answered" /\ calls[Len(calls)].res \in {"throw", "httpError"})

\* the prompt text of page j of the returned book
ReturnedPrompt(j) ==
  Get(Get(responses[1].body, "prompts").a[j], "prompt").s

\* the final-page template for the character ch
FinalPageText(ch) ==
  ch \o <<" feeling proud and calm at the end of the story, showing how they have grown and found courage.">>

\* the generic template for the character ch and the idea
GenericPageText(ch, idea) ==
  ch \o <<" in a gentle scene that continues their adventure about ">>
  \o ToLowerCase(idea) \o <<", looking curious and hopeful.">>

\* C20: in a template book of N pages, page N has the final-page template,
\* every page other than 1, 2, 3 (the helper page) and N has the generic
\* template, and the prompts of pages 1, 2, 3 and N differ from each other
\* and from the generic one.
C20_TemplatePages ==
  TemplateAnswered
  => LET N == Len(Get(responses[1].body, "prompts").a)
         ch == Get(responses[1].body, "mainCharacter").s
         idea == Get(responses[1].body, "storyIdea").s
     IN /\ N \in 4 .. 16
        /\ ReturnedPrompt(N) = FinalPageText(ch)
        /\ \A j \in (1 .. N) \ {1, 2, 3, N} :
             ReturnedPrompt(j) = GenericPageText(ch, idea)
        /\ \A j, k \in {1, 2, 3, N} :
             j # k => ReturnedPrompt(j) # ReturnedPrompt(k)
        /\ \A j \in {1, 2, 3, N} : ReturnedPrompt(j) # GenericPageText(ch, idea)

\* the text s occurs in the text t
Contains(t, s) ==
  \E k \in 0 .. (Len(t) - Len(s)) : SubSeq(t, k + 1, k + Len(s)) = s

\* C21: in the final revision, when the body of an image request carries a
\* non-empty mainCharacter, the prompt of every image-provider call holds
\* that character text and the instruction to keep the character the same.
C21_MainCharacterEmbedded ==
  ( /\ version = "final"
    /\ req.route = "images"
    /\ Truthy(req.body.mainCharacter) )
  => \A k \in 1 .. Len(calls) :
       calls[k].to = "image"
       => /\ Contains(calls[k].prompt, req.body.mainCharacter.s)
          /\ Contains(calls[k].prompt,
                      <<" Important: - Keep the main character clearly the same as on all other pages. ...">>)

\* C22: in the final revision, once an image call is answered 402 the
\* request is answered with status 402 and a body that holds an error field
\* and nothing else, whatever images were made before.
C22_BillingDiscardsImages ==
  ( /\ version = "final"
    /\ \E k \in 1 .. Len(calls) :
         calls[k].to = "image" /\ calls[k].res = "http402" )
  => /\ Answered
     /\ responses[1].status = 402
     /\ DOMAIN responses[1].body = {"error"}

\* C22 happens: the third call was answered 402 after two images were made
C22_Witness ==
  /\ version = "final"
  /\ Answered
  /\ exit = "billing"
  /\ Len(calls) = 3
  /\ calls[3].res = "http402"
  /\ Len(images) = 2
  /\ responses[1].status = 402

\* C23: in the final revision, an image call that throws is the last call of
\* the request, and the request is answered 500 "Failed to generate images."
\* with no images in the body.
C23_ThrowAbortsBatch ==
  version = "final"
  => \A k \in 1 .. Len(calls) :
       (calls[k].to = "image" /\ calls[k].res = "throw")
       => /\ k = Len(calls)
          /\ Answered
          /\ responses[1].status = 500
          /\ responses[1].body.error = "Failed to generate images."
          /\ "images" \notin DOMAIN responses[1].body

\* C23 happens: the second of three calls threw after one image was made
C23_Witness ==
  /\ version = "final"
  /\ Answered
  /\ req.route = "images"
  /\ IsArray(req.body.prompts)
  /\ Len(req.body.prompts.a) = 3
  /\ Len(calls) = 2
  /\ calls[1].res = "ok"
  /\ calls[2].res = "throw"
  /\ Len(images) = 1
  /\ exit = "catch"

\* C24: in the final revision, a book request is answered 400 when it fails
\* validation and 200 otherwise, and every 200 body has an array of at least
\* one paragraph and an array of at least one prompt.
C24_BookAlwaysUsable ==
  ( /\ version = "final"
    /\ Answered
    /\ req.route = "book" )
  => /\ responses[1].status \in {200, 400}
     /\ responses[1].status = 400 <=> exit = "validation"
     /\ responses[1].status = 200
        => /\ IsArray(Get(responses[1].body, "paragraphs"))
           /\ Len(Get(responses[1].body, "paragraphs").a) > 0
           /\ IsArray(Get(responses[1].body, "prompts"))
           /\ Len(Get(responses[1].body, "prompts").a) > 0

\* C24 happens: the provider returned a Book with an empty prompts array and
\* the request was answered 200
C24_Witness ==
  /\ version = "final"
  /\ ParseSucceeded
  /\ ParsedAnswer.t = "object"
  /\ Get(ParsedAnswer, "prompts") = Arr(<<>>)
  /\ responses[1].status = 200
  /\ Len(Get(responses[1].body, "prompts").a) = 8

\* C25: a template book has exactly N prompts, N the spec's page count of
\* the request, numbered 1, 2, ..., N in this order, each with a non-empty
\* prompt string, and exactly 5 paragraphs.
C25_TemplateShape ==
  TemplateAnswered
  => /\ Len(Get(responses[1].body, "prompts").a)
          = SpecPageCount(req.body.pageCount)
     /\ \A j \in 1 .. Len(Get(responses[1].body, "prompts").a) :
          /\ Get(Get(responses[1].body, "prompts").a[j], "page") = Num(j)
          /\ Get(Get(responses[1].body, "prompts").a[j], "prompt").t = "string"
          /\ Len(ReturnedPrompt(j)) > 0
     /\ Len(Get(responses[1].body, "paragraphs").a) = 5

\* C25 happens: a request for 20 pages was answered with the template book
C25_Witness ==
  /\ TemplateAnswered
  /\ req.body.pageCount = Num(20)
  /\ Len(Get(responses[1].body, "prompts").a) = 16
  /\ exit = "noKey"

\* C26: in the final revision, a request gets at most one response; when the
\* response is sent the handler has ended and no call is outstanding; and
\* from then on no response is sent and no call is issued.
C26_AtMostOneResponse ==
  /\ [](version = "final"
        => /\ Len(responses) <= 1
           /\ Len(responses) = 1
              => /\ pc = "done"
                 /\ \A k \in 1 .. Len(calls) : calls[k].res # "pending")
  /\ [][(version = "final" /\ Len(responses) = 1)
        => (responses' = responses /\ calls' = calls)]_vars

\* C26 happens: the final revision answered 402 after the first of three
\* calls it had to make
C26_Witness ==
  /\ version = "final"
  /\ pc = "done"
  /\ Len(responses) = 1
  /\ exit = "billing"
  /\ Len(calls) = 1
  /\ Len(req.body.prompts.a) = 3

\* C27: when every image-provider call is answered in the end, every image
\* request is answered in the end, and at no time have more than 8
\* image-provider calls been issued for it; the handler never stops anywhere
\* but at the await of a call without having answered.
C27_ImagesRequestAnswered ==
  /\ [](Len(ImageCalls) <= 8)
  /\ []((req.route = "images" /\ pc # "imageCall") => Answered)
  /\ (req.route = "images") ~> (req.route = "images" /\ Answered)

\* C27 happens: the final revision answered a request of 8 prompts after 8
\* calls that all succeeded
C27_Witness ==
  /\ version = "final"
  /\ Answered
  /\ req.route = "images"
  /\ exit = "loopEnd"
  /\ Len(req.body.prompts.a) = 8
  /\ Len(ImageCalls) = 8
  /\ Len(images) = 8

====
